---- MODULE Spec2Model ----
(***************************************************************************)
(* ModalDB: the modal item stores (ModalDicts.py: ModalDict, MemoryDict,   *)
(* DiskDict) and the child address registry (ChildContainer.py).           *)
(*                                                                         *)
(* Python objects are modelled by value; where the code keeps a reference  *)
(* to a part of mongo_doc instead of a copy (self.metadata[k],             *)
(* self.childtype_dicts), the model reads and writes mongo_doc itself.     *)
(***************************************************************************)
EXTENDS Integers, Sequences, FiniteSets, TLC

VARIABLES
    datatype_schema,  \* the schema handed to the stores' constructors
    mongo_doc,        \* the backing document: root, items, children
    files,            \* the filesystem: path -> file content, NoFile if none
    live,             \* the stores that have been constructed
    keys,             \* self.keys of each store
    data,             \* self.data of each store
    last,             \* history: the most recent mutation of each key, per store
    parent_id,        \* ChildContainer.parent_id
    childtypes,       \* ChildContainer.childtypes (class names, in order)
    seeded,           \* history: mongo_doc.children as handed to the registry
    added,            \* history: the (type, raw id) pairs add has inserted
    ret               \* the most recent registry call and its outcome

vars == <<datatype_schema, mongo_doc, files, live, keys, data, last,
          parent_id, childtypes, seeded, added, ret>>

storeVars == <<datatype_schema, files, live, keys, data, last>>
regVars == <<parent_id, childtypes, seeded, added, ret>>

----------------------------------------------------------------------------
(* Bounds *)

\* item values are 1..MaxVal
MaxVal == 2

\* Python's None, the absence sentinel
None == 0

Values == 1..MaxVal
ValuesOrNone == Values \cup {None}

----------------------------------------------------------------------------
(* Outcomes of a call: err = "ok" and the returned value, or the exception *)

Ok(v) == [err |-> "ok", val |-> v]
Raise(e) == [err |-> e, val |-> None]

\* KeyError("No such item: %s" % key), raised by detect_keyerror
NoSuchItem == "KeyError: No such item"
\* KeyError(key), raised by a dict that does not hold the key
DictKeyError == "KeyError"
AssertionError == "AssertionError"
\* raised by os.remove on a missing path and by a save_func that cannot write
OSError == "OSError"

----------------------------------------------------------------------------
(* The schema and the serialize / deserialize functions it supplies *)

\* a file's content; NoFile when the path does not exist
NoFile == <<>>

pickle(v) == <<"pk", v>>
unpickle(c) == c[2]
\* a serialize function that does not keep the whole value
save_clipped(v) == <<"pk", IF v > 1 THEN 1 ELSE v>>

Contents == {pickle(v) : v \in ValuesOrNone}

\* save_funcs[key](value, path): the content written
ApplySave(f, v) ==
    CASE f = "pickle" -> pickle(v)
      [] f = "save_clipped" -> save_clipped(v)

\* load_funcs[key](path): the value read from the content at path
ApplyLoad(f, c) ==
    CASE f = "unpickle" -> unpickle(c)

\* a disk item whose file name is fn
DiskItem(fn, lf, sf) ==
    [mode |-> "disk", filename |-> fn, load_func |-> lf, save_func |-> sf]

MemoryItem ==
    [mode |-> "memory", filename |-> "None", load_func |-> "None",
     save_func |-> "None"]

\* img: read-write, unpickle inverts pickle; raw: read-only (no save_func);
\* note: memory mode
SchemaPickled ==
    [img  |-> DiskItem("img.pkl", "unpickle", "pickle"),
     raw  |-> DiskItem("raw.pkl", "unpickle", "None"),
     note |-> MemoryItem]

\* thumb: read-write, its save_func does not keep the whole value
SchemaClipped ==
    [thumb |-> DiskItem("thumb.pkl", "unpickle", "save_clipped"),
     note  |-> MemoryItem]

Schemas == {SchemaPickled, SchemaClipped}

\* the keys a caller may pass: the schemas' and one no schema declares
CallKeys == UNION {DOMAIN sch : sch \in Schemas} \cup {"zz"}

SchemaKeys == DOMAIN datatype_schema

\* the deserialize function of k inverts its serialize function
Inverts(k) ==
    /\ datatype_schema[k].mode = "disk"
    /\ datatype_schema[k].save_func # "None"
    /\ \A v \in ValuesOrNone :
          ApplyLoad(datatype_schema[k].load_func,
                    ApplySave(datatype_schema[k].save_func, v)) = v

----------------------------------------------------------------------------
(* The stores *)

StoreIds == {"mem", "A", "B"}

mode(s) == IF s = "mem" THEN "memory" ELSE "disk"

\* os.path.join(root, items[k]['filename'])
path(k) == <<mongo_doc.root, datatype_schema[k].filename>>

AllPaths == {path(k) : k \in {x \in SchemaKeys : datatype_schema[x].mode = "disk"}}

\* ModalDict.__init__: self.keys
InitKeys(s) == {k \in SchemaKeys : datatype_schema[k].mode = mode(s)}

\* the constructors' self.data
InitData(s, doc) ==
    IF mode(s) = "memory"
    THEN [k \in InitKeys(s) |-> doc.items[k].data]
    ELSE [k \in InitKeys(s) |-> None]

\* key in self
contains(s, k) == k \in keys[s]

\* self.metadata[k]['present'] = b, which is mongo_doc['items'][k]['present']
SetPresent(doc, k, b) == [doc EXCEPT !.items[k].present = b]

\* get_item that drops the cached value when the file is gone
get_item_revalidates(s, d, f, k) ==
    IF k \notin DOMAIN d
    THEN [res |-> Raise(DictKeyError), data |-> d]
    ELSE IF mode(s) = "disk" /\ f[path(k)] = NoFile
    THEN [res |-> Ok(None), data |-> [d EXCEPT ![k] = None]]
    ELSE IF mode(s) = "disk" /\ d[k] = None
    THEN LET v == ApplyLoad(datatype_schema[k].load_func, f[path(k)])
         IN  [res |-> Ok(v), data |-> [d EXCEPT ![k] = v]]
    ELSE [res |-> Ok(d[k]), data |-> d]

\* get_item that loads whenever the file exists, cached value or not
get_item_reloads(s, d, f, k) ==
    IF k \notin DOMAIN d
    THEN [res |-> Raise(DictKeyError), data |-> d]
    ELSE IF mode(s) = "disk" /\ f[path(k)] # NoFile
    THEN LET v == ApplyLoad(datatype_schema[k].load_func, f[path(k)])
         IN  [res |-> Ok(v), data |-> [d EXCEPT ![k] = v]]
    ELSE [res |-> Ok(d[k]), data |-> d]

\* DiskDict.get_item / MemoryDict.get_item on self.data = d over filesystem f:
\* the outcome and the new self.data
get_item(s, d, f, k) ==
    IF k \notin DOMAIN d
    THEN [res |-> Raise(DictKeyError), data |-> d]
    ELSE IF mode(s) = "disk" /\ d[k] = None /\ f[path(k)] # NoFile
    THEN LET v == ApplyLoad(datatype_schema[k].load_func, f[path(k)])
         IN  [res |-> Ok(v), data |-> [d EXCEPT ![k] = v]]
    ELSE [res |-> Ok(d[k]), data |-> d]

\* __getitem__ without detect_keyerror
getitem_unchecked(s, d, f, k) == get_item(s, d, f, k)

\* ModalDict.__getitem__
getitem(s, d, f, k) ==
    IF ~contains(s, k)
    THEN [res |-> Raise(NoSuchItem), data |-> d]
    ELSE get_item(s, d, f, k)

\* what self[k] returns in the current state
GetRes(s, k) == getitem(s, data[s], files, k).res

\* item_present that trusts the flag written by the last set or delete
item_present_from_flag(s, d, f, k) == mongo_doc.items[k].present

\* item_present
item_present(s, d, f, k) ==
    IF mode(s) = "disk"
    THEN f[path(k)] # NoFile
    ELSE getitem(s, d, f, k).res # Ok(None)

\* update_item_metadata that leaves the flags as they are
update_item_metadata_skipped(s, d, f, doc) == doc

\* update_item_metadata
update_item_metadata(s, d, f, doc) ==
    [doc EXCEPT !.items =
        [k \in DOMAIN doc.items |->
            IF k \in keys[s]
            THEN [doc.items[k] EXCEPT !.present = item_present(s, d, f, k)]
            ELSE doc.items[k]]]

\* what present_items() returns in the current state
PresentItemsRes(s) ==
    {k \in keys[s] :
        update_item_metadata(s, data[s], files, mongo_doc).items[k].present}

AbsentItemsRes(s) == keys[s] \ PresentItemsRes(s)

\* d with d[k] = v, adding the key when the dict does not hold it
DictSet(d, k, v) ==
    [x \in DOMAIN d \cup {k} |-> IF x = k THEN v ELSE d[x]]

\* del d[k]
DictDel(d, k) == [x \in DOMAIN d \ {k} |-> d[x]]

\* save_item that reports success and writes nothing
save_item_no_write(d, f, k, io_ok) ==
    IF datatype_schema[k].save_func = "None"
    THEN [res |-> Raise(AssertionError), files |-> f]
    ELSE [res |-> Ok(None), files |-> f]

\* DiskDict.save_item: the outcome and the filesystem after it; io_ok is
\* whether the save_func manages to write
save_item(d, f, k, io_ok) ==
    IF datatype_schema[k].save_func = "None"
    THEN [res |-> Raise(AssertionError), files |-> f]
    ELSE IF ~io_ok
    THEN [res |-> Raise(OSError), files |-> f]
    ELSE [res |-> Ok(None),
          files |-> [f EXCEPT ![path(k)] =
                        ApplySave(datatype_schema[k].save_func, d[k])]]

\* set_item without the write-through: the cache alone is updated
set_item_cache_only(s, d, f, k, v, io_ok) ==
    [res |-> Ok(None), data |-> DictSet(d, k, v), files |-> f]

\* set_item that saves first and caches the value only when the save succeeds
set_item_save_first(s, d, f, k, v, io_ok) ==
    IF mode(s) = "memory"
    THEN [res |-> Ok(None), data |-> DictSet(d, k, v), files |-> f]
    ELSE LET d1 == DictSet(d, k, v)
             sv == save_item(d1, f, k, io_ok)
         IN  [res |-> sv.res,
              data |-> IF sv.res.err = "ok" THEN d1 ELSE d,
              files |-> sv.files]

\* set_item
set_item(s, d, f, k, v, io_ok) ==
    IF mode(s) = "memory"
    THEN [res |-> Ok(None), data |-> DictSet(d, k, v), files |-> f]
    ELSE LET d1 == DictSet(d, k, v)
             sv == save_item(d1, f, k, io_ok)
         IN  [res |-> sv.res, data |-> d1, files |-> sv.files]

\* del_item that removes the file and leaves the cached value in place
del_item_keeps_cache(s, d, f, k) ==
    IF mode(s) = "memory"
    THEN [res |-> Ok(None), data |-> DictSet(d, k, None), files |-> f]
    ELSE IF k \notin DOMAIN d
    THEN [res |-> Raise(DictKeyError), data |-> d, files |-> f]
    ELSE IF f[path(k)] = NoFile
    THEN [res |-> Raise(OSError), data |-> DictDel(d, k), files |-> f]
    ELSE [res |-> Ok(None), data |-> d,
          files |-> [f EXCEPT ![path(k)] = NoFile]]

\* del_item that clears the cache and leaves the file in place
del_item_keeps_file(s, d, f, k) ==
    IF mode(s) = "memory"
    THEN [res |-> Ok(None), data |-> DictSet(d, k, None), files |-> f]
    ELSE IF k \notin DOMAIN d
    THEN [res |-> Raise(DictKeyError), data |-> d, files |-> f]
    ELSE [res |-> Ok(None), data |-> DictSet(d, k, None), files |-> f]

\* del_item
del_item(s, d, f, k) ==
    IF mode(s) = "memory"
    THEN [res |-> Ok(None), data |-> DictSet(d, k, None), files |-> f]
    ELSE IF k \notin DOMAIN d
    THEN [res |-> Raise(DictKeyError), data |-> d, files |-> f]
    ELSE IF f[path(k)] = NoFile
    THEN [res |-> Raise(OSError), data |-> DictDel(d, k), files |-> f]
    ELSE [res |-> Ok(None), data |-> DictSet(d, k, None),
          files |-> [f EXCEPT ![path(k)] = NoFile]]

\* ModalDict.__setitem__ on self.data = d, filesystem f, document doc: the
\* outcome and the three after it
setitem(s, d, f, doc, k, v, io_ok) ==
    IF ~contains(s, k)
    THEN [res |-> Raise(NoSuchItem), data |-> d, files |-> f, doc |-> doc]
    ELSE LET r == set_item(s, d, f, k, v, io_ok)
         IN  [res |-> r.res, data |-> r.data, files |-> r.files,
              doc |-> SetPresent(doc, k, TRUE)]

\* ModalDict.__delitem__
delitem(s, d, f, doc, k) ==
    IF ~contains(s, k)
    THEN [res |-> Raise(NoSuchItem), data |-> d, files |-> f, doc |-> doc]
    ELSE LET r == del_item(s, d, f, k)
         IN  [res |-> r.res, data |-> r.data, files |-> r.files,
              doc |-> SetPresent(doc, k, FALSE)]

\* what del self[k] would raise or return in the current state
DelRes(s, k) ==
    IF ~contains(s, k) THEN Raise(NoSuchItem)
    ELSE del_item(s, data[s], files, k).res

\* history: the most recent mutation of a key: "set" with the value set,
\* "del" with the value that was cached before it, "setfail" with the value
\* of a set that raised, "init" when the store has not mutated the key,
\* "other" after a failed delete and after a write to the key's file from
\* outside the store
Mut(m, v) == [m |-> m, v |-> v]

\* store s has just applied mutation rec to key k; every other store sees
\* its key k touched from outside
Touch(l, s, k, rec) ==
    [t \in StoreIds |->
        [x \in DOMAIN l[t] |->
            IF x # k THEN l[t][x]
            ELSE IF t = s THEN rec ELSE Mut("other", None)]]

----------------------------------------------------------------------------
(* Actions of the stores *)

\* DiskDict(mongo_doc, schema) / MemoryDict(mongo_doc, schema): a fresh
\* store over the same document and files
Construct(s) ==
    /\ s \in live
    /\ LET d == InitData(s, mongo_doc)
       IN  /\ data' = [data EXCEPT ![s] = d]
           /\ mongo_doc' = update_item_metadata(s, d, files, mongo_doc)
    /\ last' = [last EXCEPT ![s] = [k \in DOMAIN last[s] |-> Mut("init", None)]]
    /\ UNCHANGED <<datatype_schema, files, live, keys>>
    /\ UNCHANGED regVars

\* value = store[k]
Get(s, k) ==
    /\ s \in live
    /\ data' = [data EXCEPT ![s] = getitem(s, data[s], files, k).data]
    /\ UNCHANGED <<datatype_schema, mongo_doc, files, live, keys, last>>
    /\ UNCHANGED regVars

\* store[k] = v
Set(s, k, v, io_ok) ==
    /\ s \in live
    /\ LET r == setitem(s, data[s], files, mongo_doc, k, v, io_ok)
       IN  /\ mongo_doc' = r.doc
           /\ data' = [data EXCEPT ![s] = r.data]
           /\ files' = r.files
           /\ last' = IF ~contains(s, k) THEN last
                      ELSE IF r.res.err = "ok"
                      THEN Touch(last, s, k, Mut("set", v))
                      ELSE [last EXCEPT ![s][k] = Mut("setfail", v)]
    /\ UNCHANGED <<datatype_schema, live, keys>>
    /\ UNCHANGED regVars

\* del store[k]
Del(s, k) ==
    /\ s \in live
    /\ LET r == delitem(s, data[s], files, mongo_doc, k)
       IN  /\ mongo_doc' = r.doc
           /\ data' = [data EXCEPT ![s] = r.data]
           /\ files' = r.files
           /\ last' = IF ~contains(s, k) THEN last
                      ELSE IF r.res.err = "ok"
                      THEN Touch(last, s, k, Mut("del", data[s][k]))
                      ELSE [last EXCEPT ![s][k] = Mut("other", None)]
    /\ UNCHANGED <<datatype_schema, live, keys>>
    /\ UNCHANGED regVars

\* store.present_items() and store.absent_items(), which calls it
PresentItems(s) ==
    /\ s \in live
    /\ mongo_doc' = update_item_metadata(s, data[s], files, mongo_doc)
    /\ UNCHANGED <<datatype_schema, files, live, keys, data, last>>
    /\ UNCHANGED regVars

\* a writer outside the stores creates or replaces the file at p
ExtWrite(p, c) ==
    /\ files[p] # c
    /\ files' = [files EXCEPT ![p] = c]
    /\ last' = [t \in StoreIds |->
                  [x \in DOMAIN last[t] |->
                      IF datatype_schema[x].mode = "disk" /\ path(x) = p
                      THEN Mut("other", None) ELSE last[t][x]]]
    /\ UNCHANGED <<datatype_schema, mongo_doc, live, keys, data>>
    /\ UNCHANGED regVars

\* a writer outside the stores removes the file at p
ExtRemove(p) ==
    /\ files[p] # NoFile
    /\ ExtWrite(p, NoFile)

StoreNext ==
    \/ \E s \in StoreIds : Construct(s)
    \/ \E s \in StoreIds, k \in CallKeys : Get(s, k)
    \/ \E s \in StoreIds, k \in CallKeys, v \in ValuesOrNone, io_ok \in BOOLEAN :
          Set(s, k, v, io_ok)
    \/ \E s \in StoreIds, k \in CallKeys : Del(s, k)
    \/ \E s \in StoreIds : PresentItems(s)
    \/ \E p \in AllPaths, c \in Contents : ExtWrite(p, c)
    \/ \E p \in AllPaths : ExtRemove(p)

----------------------------------------------------------------------------
(* The child address registry: identifiers are strings, modelled as        *)
(* sequences of characters                                                 *)

\* nesting depth of the parent prefix in the ids a caller passes
MaxNest == 2
\* length of the strings handed to to_raw_id / to_full_id
MaxLen == 4

Chars == {"p", "/", "1"}
id_joiner == <<"/">>

\* every string of at most MaxLen characters
Strings == UNION {[1..n -> Chars] : n \in 0..MaxLen}

ParentIds == {<<"p">>, <<"p", "/", "1">>}

\* the classes a caller may name; no schema declares Video as a child type
TypeNames == {"Frame", "Annotation", "Video"}
NoType == "-"

\* schema['contains']
ChildtypeLists == {<<>>, <<"Frame">>, <<"Frame", "Annotation">>}

parent_prefix == parent_id \o id_joiner

\* _id.startswith(prefix)
startswith(x, prefix) ==
    /\ Len(x) >= Len(prefix)
    /\ SubSeq(x, 1, Len(prefix)) = prefix

is_full_id(x) == startswith(x, parent_prefix)

is_raw_id(x) == ~is_full_id(x)

\* to_raw_id that never strips the prefix
to_raw_id_unstripped(x) == x

to_raw_id(x) ==
    IF is_full_id(x) THEN SubSeq(x, Len(parent_prefix) + 1, Len(x)) ELSE x

to_full_id(x) ==
    IF is_raw_id(x) THEN parent_prefix \o x ELSE x

\* the parent prefix n times, then r
RECURSIVE Nest(_, _)
Nest(r, n) == IF n = 0 THEN r ELSE parent_prefix \o Nest(r, n - 1)

\* the ids a caller passes to get and add: raw, full, and nested deeper
CallIds == {Nest(<<"1">>, n) : n \in 0..MaxNest}

\* an argument list *args: (), (id), (datatype, id), (datatype, id, id)
Args(n, t, x) == [argc |-> n, datatype |-> t, id |-> x]

CallArgs ==
    {Args(0, NoType, <<>>)}
    \cup {Args(1, NoType, x) : x \in CallIds}
    \cup {Args(n, t, x) : n \in {2, 3}, t \in TypeNames, x \in CallIds}

\* the outcome of a registry call: (childtype, id) or the exception
Resolved(t, x) == [err |-> "ok", childtype |-> t, id |-> x]
Fail(e) == [err |-> e, childtype |-> NoType, id |-> <<>>]

ConfigError == "Exception: No childtypes defined in Schema; operation illegal"
AmbiguityError == "TypeError: Multiple childtypes exist; need to specify one"
InvalidTypeError == "TypeError: Not a valid childtype"
InvalidArgsError == "Exception: Invalid number of arguments"
\* KeyError(raw_id), raised by childtype_dict[raw_id]
LookupError == "KeyError"

\* no_childtypes that never reports a leaf type
no_childtypes_never == FALSE

no_childtypes == Len(childtypes) = 0

is_valid_childtype(datatype) == \E i \in 1..Len(childtypes) : childtypes[i] = datatype

get_only_childtype ==
    IF Len(childtypes) # 1
    THEN Fail("Exception: You need to specify the child's datatype")
    ELSE Resolved(childtypes[1], <<>>)

\* get_childtype_dict that hands every type the first declared type's table
get_childtype_dict_shared(doc, datatype) == doc.children[childtypes[1]]

\* self.childtype_dicts[datatype.__name__], where self.childtype_dicts is
\* mongo_doc['children']
get_childtype_dict(doc, datatype) == doc.children[datatype]

sanitize(args) ==
    IF no_childtypes THEN Fail(ConfigError)
    ELSE IF args.argc = 1
    THEN IF Len(childtypes) # 1 THEN Fail(AmbiguityError)
         ELSE IF get_only_childtype.err # "ok" THEN get_only_childtype
         ELSE Resolved(get_only_childtype.childtype, to_raw_id(args.id))
    ELSE IF args.argc = 2
    THEN IF ~is_valid_childtype(args.datatype) THEN Fail(InvalidTypeError)
         ELSE Resolved(args.datatype, to_raw_id(args.id))
    ELSE Fail(InvalidArgsError)

\* ChildContainer.get: the outcome over document doc
get(doc, args) ==
    LET r == sanitize(args)
    IN  IF r.err # "ok" THEN r
        ELSE LET childtype_dict == get_childtype_dict(doc, r.childtype)
             IN  IF r.id \notin DOMAIN childtype_dict THEN Fail(LookupError)
                 ELSE Resolved(r.childtype, childtype_dict[r.id])

\* add that replaces the type's table by the new entry alone
add_replaces_table(doc, args) ==
    LET r == sanitize(args)
    IN  IF r.err # "ok" THEN [res |-> r, doc |-> doc]
        ELSE [res |-> Resolved(NoType, <<>>),
              doc |-> [doc EXCEPT !.children[r.childtype] =
                          (r.id :> to_full_id(r.id))]]

\* ChildContainer.add: the outcome, and the document after it
add(doc, args) ==
    LET r == sanitize(args)
    IN  IF r.err # "ok" THEN [res |-> r, doc |-> doc]
        ELSE LET full_id == to_full_id(r.id)
                 childtype_dict == get_childtype_dict(doc, r.childtype)
             IN  [res |-> Resolved(NoType, <<>>),
                  doc |-> [doc EXCEPT !.children[r.childtype] =
                              DictSet(childtype_dict, r.id, full_id)]]

Call(op, args, res) == [op |-> op, args |-> args, res |-> res]

----------------------------------------------------------------------------
(* Actions of the registry *)

\* container.sanitize(*args)
Sanitize(args) ==
    /\ ret' = Call("sanitize", args, sanitize(args))
    /\ UNCHANGED <<mongo_doc, parent_id, childtypes, seeded, added>>
    /\ UNCHANGED storeVars

\* container.get(*args)
RegGet(args) ==
    /\ ret' = Call("get", args, get(mongo_doc, args))
    /\ UNCHANGED <<mongo_doc, parent_id, childtypes, seeded, added>>
    /\ UNCHANGED storeVars

\* container.add(*args)
RegAdd(args) ==
    /\ LET r == add(mongo_doc, args)
       IN  /\ mongo_doc' = r.doc
           /\ ret' = Call("add", args, r.res)
           /\ added' = IF r.res.err = "ok"
                       THEN added \cup {<<sanitize(args).childtype, sanitize(args).id>>}
                       ELSE added
    /\ UNCHANGED <<parent_id, childtypes, seeded>>
    /\ UNCHANGED storeVars

\* container.to_raw_id(x)
ToRawId(x) ==
    /\ ret' = Call("to_raw_id", Args(1, NoType, x), Resolved(NoType, to_raw_id(x)))
    /\ UNCHANGED <<mongo_doc, parent_id, childtypes, seeded, added>>
    /\ UNCHANGED storeVars

\* container.to_full_id(x)
ToFullId(x) ==
    /\ ret' = Call("to_full_id", Args(1, NoType, x), Resolved(NoType, to_full_id(x)))
    /\ UNCHANGED <<mongo_doc, parent_id, childtypes, seeded, added>>
    /\ UNCHANGED storeVars

RegNext ==
    \/ \E args \in CallArgs : Sanitize(args)
    \/ \E args \in CallArgs : RegGet(args)
    \/ \E args \in CallArgs : RegAdd(args)

IdNext ==
    \/ \E x \in Strings : ToRawId(x)
    \/ \E x \in Strings : ToFullId(x)

----------------------------------------------------------------------------
(* Initial states *)

NoCall == Call("none", Args(0, NoType, <<>>), Resolved(NoType, <<>>))

\* the documents a store may be constructed from, with children tables ch
Docs(sch, ch) ==
    {[root |-> "root",
      items |-> [k \in DOMAIN sch |->
                    [present |-> FALSE,
                     data |-> IF sch[k].mode = "memory" THEN v ELSE None]],
      children |-> ch] : v \in ValuesOrNone}

\* the stores in L have just been constructed from a document over some files
StoreInit(L, sch, ch) ==
    /\ datatype_schema = sch
    /\ live = L
    /\ keys = [s \in StoreIds |->
                 IF s \in L THEN {k \in DOMAIN sch : sch[k].mode = mode(s)} ELSE {}]
    /\ \E doc \in Docs(sch, ch) :
          /\ files \in [{<<doc.root, sch[k].filename>> :
                           k \in {x \in DOMAIN sch : sch[x].mode = "disk"}}
                        -> {NoFile, pickle(1)}]
          /\ data = [s \in StoreIds |->
                        IF s \notin L THEN <<>>
                        ELSE [k \in keys[s] |->
                                IF mode(s) = "memory" THEN doc.items[k].data
                                ELSE None]]
          /\ mongo_doc =
               [doc EXCEPT !.items =
                  [k \in DOMAIN doc.items |->
                     [doc.items[k] EXCEPT !.present =
                        \E s \in L :
                           /\ k \in keys[s]
                           /\ IF mode(s) = "disk"
                              THEN files[<<doc.root, sch[k].filename>>] # NoFile
                              ELSE doc.items[k].data # None]]]
    /\ last = [s \in StoreIds |-> [k \in DOMAIN sch |-> Mut("init", None)]]

\* a registry has just been constructed: ChildContainer(parent_id, schema,
\* mongo_doc), where mongo_doc['children'] holds a table per declared type
RegInit(pid, types, ch) ==
    /\ parent_id = pid
    /\ childtypes = types
    /\ seeded = ch
    /\ added = {}
    /\ ret = NoCall

\* the children tables a document may hold for the declared types: each
\* empty or holding the child "1"
ChildrenTables(pid, types) ==
    [{types[i] : i \in 1..Len(types)} ->
        {<<>>, (<<"1">> :> (pid \o id_joiner \o <<"1">>))}]

\* the owner holds one store, the memory store or a disk store, and a
\* registry of a leaf type that no call is made on
Init ==
    /\ \E L \in {{"mem"}, {"A"}}, sch \in Schemas : StoreInit(L, sch, <<>>)
    /\ RegInit(<<"p">>, <<>>, <<>>)

\* one disk item, read-write, unpickle inverts pickle
SchemaShared == [img |-> DiskItem("img.pkl", "unpickle", "pickle")]

\* two disk stores A and B constructed over the same document and files
InitTwo ==
    /\ StoreInit({"A", "B"}, SchemaShared, <<>>)
    /\ RegInit(<<"p">>, <<>>, <<>>)

\* the owner holds a registry, and no store any call is made on
InitReg ==
    \E pid \in ParentIds, types \in ChildtypeLists :
       \E ch \in ChildrenTables(pid, types) :
          /\ RegInit(pid, types, ch)
          /\ StoreInit({}, <<>>, ch)

Next == StoreNext

\* the item stores
Spec == Init /\ [][Next]_vars

\* two disk stores over the same files
SpecTwo == InitTwo /\ [][Next]_vars

\* the child address registry
SpecReg == InitReg /\ [][RegNext]_vars

\* identifier normalization
SpecId == InitReg /\ [][IdNext]_vars

----------------------------------------------------------------------------
(* Claims *)

DiskStores == {s \in live : mode(s) = "disk"}

\* C1: in one store, get(k) returns v when the most recent mutation of k
\* was a successful set(k, v) with v not None, and returns None when it was
\* a successful delete(k).
C1_LastMutationDecidesGet ==
    \A s \in live : \A k \in keys[s] :
       /\ (last[s][k].m = "set" /\ last[s][k].v # None)
             => GetRes(s, k) = Ok(last[s][k].v)
       /\ last[s][k].m = "del" => GetRes(s, k) = Ok(None)

\* a disk store deleted a key it held a cached value for
C1_Witness ==
    /\ "A" \in live
    /\ "img" \in keys["A"]
    /\ last["A"]["img"] = Mut("del", 2)
    /\ GetRes("A", "img") = Ok(None)

\* C2: after a successful set(k, v) on a disk store, for a key whose
\* deserialize function inverts its serialize function, get(k) on a fresh
\* disk store over the same root and filenames returns v.
C2_FreshStoreReadsWhatWasSet ==
    \A s \in DiskStores : \A k \in keys[s] :
       (last[s][k].m = "set" /\ Inverts(k))
          => getitem(s, InitData(s, mongo_doc), files, k).res = Ok(last[s][k].v)

\* a value was set on the pickled key, and the store's cache is what a fresh
\* store would not have
C2_Witness ==
    /\ "A" \in live
    /\ "img" \in keys["A"]
    /\ Inverts("img")
    /\ last["A"]["img"] = Mut("set", 2)
    /\ InitData("A", mongo_doc)["img"] = None

\* C3: in every reachable state of a store, get(k) raises the unknown-key
\* error exactly when k is outside the declared keys; for a declared key it
\* returns a value or None.
C3_GetFailsOnlyOnUndeclaredKeys ==
    \A s \in live : \A k \in CallKeys :
       IF k \in keys[s]
       THEN GetRes(s, k).err = "ok"
       ELSE GetRes(s, k) = Raise(NoSuchItem)

\* C4: in a disk store, delete(k) on a declared key whose backing file does
\* not exist raises the filesystem error, in every reachable state.
C4_DeleteOfMissingFileIsFilesystemError ==
    \A s \in DiskStores : \A k \in keys[s] :
       files[path(k)] = NoFile => DelRes(s, k) = Raise(OSError)

C6_DocumentNeverWritten == [][mongo_doc' = mongo_doc]_vars

\* C7: to_full_id and to_raw_id are idempotent; the result of to_full_id
\* starts with the parent prefix and the result of to_raw_id does not.
C7_NormalizationIdempotent ==
    /\ ret.op = "to_full_id" =>
          /\ to_full_id(ret.res.id) = ret.res.id
          /\ startswith(ret.res.id, parent_id \o <<"/">>)
    /\ ret.op = "to_raw_id" =>
          /\ to_raw_id(ret.res.id) = ret.res.id
          /\ ~startswith(ret.res.id, parent_id \o <<"/">>)

\* the declared child types, as a set
Declared == {childtypes[i] : i \in 1..Len(childtypes)}

\* x with the parent prefix taken off once when it starts with it
Stripped(x) ==
    LET pre == parent_id \o <<"/">>
    IN  IF Len(x) >= Len(pre) /\ \A i \in 1..Len(pre) : x[i] = pre[i]
        THEN [i \in 1..(Len(x) - Len(pre)) |-> x[i + Len(pre)]]
        ELSE x

\* the decision table of child reference resolution
Decision(a) ==
    IF Declared = {} THEN Fail(ConfigError)
    ELSE CASE a.argc = 1 ->
                 IF Cardinality(Declared) = 1
                 THEN Resolved(CHOOSE t \in Declared : TRUE, Stripped(a.id))
                 ELSE Fail(AmbiguityError)
           [] a.argc = 2 ->
                 IF a.datatype \in Declared
                 THEN Resolved(a.datatype, Stripped(a.id))
                 ELSE Fail(InvalidTypeError)
           [] OTHER -> Fail(InvalidArgsError)

\* C8: sanitize follows the decision table, and get and add fail as it says
\* whenever it says the reference does not resolve.
C8_SanitizeDecisionTable ==
    /\ ret.op = "sanitize" => ret.res = Decision(ret.args)
    /\ ret.op \in {"get", "add"} =>
          IF Decision(ret.args).err = "ok"
          THEN ret.res.err \in {"ok", LookupError}
          ELSE ret.res = Decision(ret.args)

\* a one-argument reference given as a full id was resolved to the only type
C8_Witness ==
    /\ ret.op = "sanitize"
    /\ ret.args.argc = 1
    /\ is_full_id(ret.args.id)
    /\ ret.res.err = "ok"
    /\ ret.res.childtype = "Frame"

\* an id in raw form, or the full form of one
RawForm(x) == ~startswith(x, parent_id \o <<"/">>)
FullForm(x) ==
    /\ startswith(x, parent_id \o <<"/">>)
    /\ RawForm(Stripped(x))

\* C9: right after add(T, id), with id in raw or full form, get(T, id)
\* returns (T, full id of id); get(T, raw id) and get(T, full id) agree; with
\* one declared type, add(id) and get(id) do what add(T, id) and get(T, id) do.
C9_RegistryRoundTrip ==
    /\ (/\ ret.op = "add"
        /\ ret.res.err = "ok"
        /\ RawForm(ret.args.id) \/ FullForm(ret.args.id))
          => get(mongo_doc, ret.args) =
                Resolved(Decision(ret.args).childtype,
                         parent_id \o <<"/">> \o Stripped(ret.args.id))
    /\ \A t \in Declared : \A r \in CallIds :
          RawForm(r) =>
             get(mongo_doc, Args(2, t, r)) =
                get(mongo_doc, Args(2, t, parent_id \o <<"/">> \o r))
    /\ Cardinality(Declared) = 1 =>
          \A t \in Declared : \A x \in CallIds :
             /\ get(mongo_doc, Args(1, NoType, x)) = get(mongo_doc, Args(2, t, x))
             /\ add(mongo_doc, Args(1, NoType, x)) = add(mongo_doc, Args(2, t, x))

\* add(T, full id) succeeded with two declared types, and get(T, raw id)
\* finds the child
C9_Witness ==
    /\ ret.op = "add"
    /\ ret.res.err = "ok"
    /\ ret.args.argc = 2
    /\ FullForm(ret.args.id)
    /\ Len(childtypes) = 2
    /\ get(mongo_doc, Args(2, ret.args.datatype, Stripped(ret.args.id))) =
          Resolved(ret.args.datatype, ret.args.id)

\* C10: get on a reference that resolves to (T, r) raises the lookup error
\* exactly when r was neither seeded in nor added to the table of T.
C10_LookupErrorIffNeverAdded ==
    \A a \in CallArgs :
       Decision(a).err = "ok" =>
          LET t == Decision(a).childtype
              r == Decision(a).id
          IN  (get(mongo_doc, a) = Fail(LookupError))
                 <=> (r \notin DOMAIN seeded[t] /\ <<t, r>> \notin added)

\* get under one type raised the lookup error for a raw id that was added
\* under the other declared type
C10_Witness ==
    /\ ret.op = "get"
    /\ ret.res = Fail(LookupError)
    /\ \E t \in Declared :
          /\ t # Decision(ret.args).childtype
          /\ <<t, Decision(ret.args).id>> \in added

\* what a caller can observe of store s, were its data d, the filesystem f
\* and the document doc: get of every key, present_items(), absent_items()
Observed(s, d, f, doc) ==
    LET present == {k \in keys[s] :
                       update_item_metadata(s, d, f, doc).items[k].present}
    IN  [get |-> [k \in CallKeys |-> getitem(s, d, f, k).res],
         present |-> present,
         absent |-> keys[s] \ present]

\* C11: in the memory store, present_items() is the set of declared keys
\* whose value is not None, whatever the present flags are, and delete(k)
\* leaves the store observably the same as set(k, None) would.
C11_MemoryPresenceIsNotNone ==
    ("mem" \in live) =>
       /\ PresentItemsRes("mem") =
             {k \in keys["mem"] : data["mem"][k] # None}
       /\ AbsentItemsRes("mem") =
             {k \in keys["mem"] : data["mem"][k] = None}
       /\ \A k \in keys["mem"] :
             LET del == delitem("mem", data["mem"], files, mongo_doc, k)
                 set == setitem("mem", data["mem"], files, mongo_doc, k, None, TRUE)
             IN  /\ del.res = Ok(None)
                 /\ set.res = Ok(None)
                 /\ Observed("mem", del.data, del.files, del.doc) =
                       Observed("mem", set.data, set.files, set.doc)
                 /\ Observed("mem", del.data, del.files, del.doc).get[k] = Ok(None)

\* set(note, None) was called: the flag says present, the value is None
C11_Witness ==
    /\ "mem" \in live
    /\ last["mem"]["note"] = Mut("set", None)
    /\ mongo_doc.items["note"].present
    /\ "note" \notin PresentItemsRes("mem")

\* C12: in a disk store, present_items() is the set of declared keys whose
\* backing file exists, whatever is cached and whatever the present flags
\* are, and absent_items() is the rest of the declared keys.
C12_DiskPresenceIsFileExistence ==
    \A s \in DiskStores :
       /\ PresentItemsRes(s) = {k \in keys[s] : files[path(k)] # NoFile}
       /\ AbsentItemsRes(s) = {k \in keys[s] : files[path(k)] = NoFile}

\* after a set that raised, the flag says present and a value is cached,
\* while the file does not exist
C12_Witness ==
    \E s \in DiskStores : \E k \in keys[s] :
       /\ last[s][k].m = "setfail"
       /\ mongo_doc.items[k].present
       /\ data[s][k] # None
       /\ files[path(k)] = NoFile
       /\ k \notin PresentItemsRes(s)

\* C13: get, set and delete with a key outside the declared keys raise the
\* unknown-key error and change nothing; the declared keys are the schema's
\* keys of the store's mode, in every state.
C13_UnknownKeyChangesNothing ==
    \A s \in live :
       /\ keys[s] = InitKeys(s)
       /\ \A k \in CallKeys \ keys[s] :
             /\ ~contains(s, k)
             /\ getitem(s, data[s], files, k) =
                   [res |-> Raise(NoSuchItem), data |-> data[s]]
             /\ \A v \in ValuesOrNone, io_ok \in BOOLEAN :
                   setitem(s, data[s], files, mongo_doc, k, v, io_ok) =
                      [res |-> Raise(NoSuchItem), data |-> data[s],
                       files |-> files, doc |-> mongo_doc]
             /\ delitem(s, data[s], files, mongo_doc, k) =
                   [res |-> Raise(NoSuchItem), data |-> data[s],
                    files |-> files, doc |-> mongo_doc]

\* a disk store that holds a cached value and a file is asked for a key of
\* the memory mode and for a key no schema declares
C13_Witness ==
    /\ "A" \in live
    /\ "img" \in keys["A"]
    /\ last["A"]["img"] = Mut("set", 1)
    /\ GetRes("A", "note") = Raise(NoSuchItem)
    /\ GetRes("A", "zz") = Raise(NoSuchItem)
    /\ DelRes("A", "zz") = Raise(NoSuchItem)

\* C14: every entry of a child address table maps a raw id r to the full id
\* parent_id + "/" + r, whatever ids add was called with.
C14_EntriesMapRawToPrefixedRaw ==
    \A t \in DOMAIN mongo_doc.children :
       \A r \in DOMAIN mongo_doc.children[t] :
          mongo_doc.children[t][r] = parent_id \o <<"/">> \o r

\* C15: a registry call changes no table entry other than the entry at the
\* resolved raw id of the resolved type, and that only when it is an add
\* that succeeds; an add made again with the same arguments changes nothing.
C15_OnlyTheAddedEntryChanges ==
    [][LET old == mongo_doc.children
           new == mongo_doc'.children
           ok == ret'.op = "add" /\ ret'.res.err = "ok"
       IN  /\ DOMAIN new = DOMAIN old
           /\ ~ok => new = old
           /\ ok =>
                 /\ Decision(ret'.args).err = "ok"
                 /\ \A t \in DOMAIN old :
                       \A r \in DOMAIN old[t] \cup DOMAIN new[t] :
                          <<t, r>> # <<Decision(ret'.args).childtype,
                                       Decision(ret'.args).id>>
                             => /\ r \in DOMAIN old[t]
                                /\ r \in DOMAIN new[t]
                                /\ new[t][r] = old[t][r]
                 /\ add(mongo_doc', ret'.args).doc = mongo_doc'
      ]_vars

\* an add succeeded on a table that held another entry, next to a table of
\* the other declared type that holds entries
C15_Witness ==
    /\ ret.op = "add"
    /\ ret.res.err = "ok"
    /\ Len(childtypes) = 2
    /\ Cardinality(DOMAIN mongo_doc.children[Decision(ret.args).childtype]) >= 2
    /\ \E t \in Declared :
          /\ t # Decision(ret.args).childtype
          /\ DOMAIN mongo_doc.children[t] # {}

\* what get(k) does on disk store s with self.data = d over filesystem f,
\* case by case
LoadOnFirstRead(s, d, f, k) ==
    LET g == getitem(s, d, f, k)
    IN  /\ d[k] # None => g = [res |-> Ok(d[k]), data |-> d]
        /\ (d[k] = None /\ f[path(k)] = NoFile)
              => g = [res |-> Ok(None), data |-> d]
        /\ (d[k] = None /\ f[path(k)] # NoFile)
              => LET v == ApplyLoad(datatype_schema[k].load_func, f[path(k)])
                 IN  g = [res |-> Ok(v), data |-> [d EXCEPT ![k] = v]]

FailedSetEffect(s, k) ==
    \A v \in ValuesOrNone, io_ok \in BOOLEAN :
       LET r == setitem(s, data[s], files, mongo_doc, k, v, io_ok)
       IN  r.res.err # "ok"
              => /\ r.res \in {Raise(AssertionError), Raise(OSError)}
                 /\ r.files = files
                 /\ k \in DOMAIN r.data
                 /\ r.data[k] = v

\* C17 as stated: after a failed set(k, v) on a disk key the error is
\* propagated, the file is as it was, get(k) returns the unsaved v and
\* present_items() reports k by the file alone.
C17_FailedSetLeavesUnsavedValue ==
    \A s \in DiskStores : \A k \in keys[s] :
       /\ FailedSetEffect(s, k)
       /\ last[s][k].m = "setfail"
             => /\ GetRes(s, k) = Ok(last[s][k].v)
                /\ k \in PresentItemsRes(s) <=> files[path(k)] # NoFile

\* C17 amended: as stated when v is not the absence sentinel; after a failed
\* set(k, None) the cache holds nothing, so get(k) returns None only when
\* the file does not exist and otherwise the value loaded from the file.
C17_FailedSetLeavesUnsavedValueUnlessNone ==
    \A s \in DiskStores : \A k \in keys[s] :
       /\ FailedSetEffect(s, k)
       /\ last[s][k].m = "setfail"
             => /\ last[s][k].v # None => GetRes(s, k) = Ok(last[s][k].v)
                /\ (last[s][k].v = None /\ files[path(k)] = NoFile)
                      => GetRes(s, k) = Ok(None)
                /\ (last[s][k].v = None /\ files[path(k)] # NoFile)
                      => GetRes(s, k) =
                            Ok(ApplyLoad(datatype_schema[k].load_func,
                                         files[path(k)]))
                /\ k \in PresentItemsRes(s) <=> files[path(k)] # NoFile

\* a set of 2 has failed on a key whose file holds 1: get returns 2 and the
\* key is reported present
C17_Witness ==
    \E s \in DiskStores : \E k \in keys[s] :
       /\ last[s][k] = Mut("setfail", 2)
       /\ files[path(k)] = pickle(1)
       /\ GetRes(s, k) = Ok(2)
       /\ k \in PresentItemsRes(s)

\* C18: with two disk stores over the same files, a set(k) or delete(k) by
\* one store leaves the result of get(k) of the other store, when that one
\* holds a non-sentinel cached value, as it was; and a set that succeeds
\* leaves its own value in the file whatever the other store had set.
C18_NoCrossInstanceInvalidation ==
    [][\A s \in DiskStores : \A t \in DiskStores \ {s} : \A k \in keys[s] :
          /\ ( /\ k \in DOMAIN data[t]
               /\ data[t][k] # None
               /\ \/ \E v \in ValuesOrNone, io_ok \in BOOLEAN : Set(s, k, v, io_ok)
                  \/ Del(s, k) )
             => /\ GetRes(t, k) = Ok(data[t][k])
                /\ GetRes(t, k)' = GetRes(t, k)
          /\ \A v \in ValuesOrNone :
                (Set(s, k, v, TRUE) /\ datatype_schema[k].save_func # "None")
                   => files'[path(k)] = ApplySave(datatype_schema[k].save_func, v)
      ]_vars

\* store A has deleted img while store B held 2 for it: B's get returns 2
\* and B's present_items() leaves img out
C18_Witness ==
    /\ DiskStores = {"A", "B"}
    /\ last["A"]["img"].m = "del"
    /\ files[path("img")] = NoFile
    /\ GetRes("B", "img") = Ok(2)
    /\ "img" \notin PresentItemsRes("B")

\* both stores have set img, A last: the file holds A's value and B's get
\* returns B's
C18_LostUpdateReached ==
    /\ DiskStores = {"A", "B"}
    /\ last["A"]["img"] = Mut("set", 1)
    /\ files[path("img")] = pickle(1)
    /\ GetRes("B", "img") = Ok(2)

\* key k of store s has seen, since the store was constructed, only calls
\* of s that succeeded and no write to its file from outside s
OnlySuccessfulCalls(s, k) == last[s][k].m \in {"init", "set", "del"}

\* C19: in a disk store whose deserialize functions invert its serialize
\* functions, while every call has succeeded and nothing else has written
\* the files, a key with a non-sentinel cached value has a backing file
\* whose content deserializes to the cached value; so a key whose get
\* returns a non-sentinel value is in present_items().
C19_WriteThroughCoherence ==
    \A s \in DiskStores : \A k \in keys[s] :
       ( /\ Inverts(k) \/ datatype_schema[k].save_func = "None"
         /\ OnlySuccessfulCalls(s, k) )
       => /\ k \in DOMAIN data[s]
          /\ data[s][k] # None
                => /\ files[path(k)] # NoFile
                   /\ ApplyLoad(datatype_schema[k].load_func, files[path(k)])
                         = data[s][k]
          /\ (GetRes(s, k).err = "ok" /\ GetRes(s, k) # Ok(None))
                => k \in PresentItemsRes(s)

\* a set of 2 has succeeded on img: the cache holds 2, the file holds the
\* pickled 2 and img is reported present
C19_Witness ==
    /\ "A" \in DiskStores
    /\ "img" \in keys["A"]
    /\ Inverts("img")
    /\ last["A"]["img"] = Mut("set", 2)
    /\ data["A"]["img"] = 2
    /\ files[path("img")] = pickle(2)
    /\ "img" \in PresentItemsRes("A")

====
